---- MODULE Spec2Model ----
(***************************************************************************)
(* Model of src/randomForest2embedding/RandomForest2Embedding.py:          *)
(* the column samplers, generate_synthetic_features,                       *)
(* generate_discriminative_dataset and the RandomForest2Embedding          *)
(* estimator (fit / fit_transform / transform).                            *)
(*                                                                         *)
(* Arrays are records [ndim, shape, data]; a 2-D array's data is a         *)
(* sequence of rows, a 1-D array's data a sequence of values.  Indices are *)
(* 1-based here where the Python source is 0-based.                        *)
(*                                                                         *)
(* numpy's RandomState is modelled as a deterministic generator whose      *)
(* whole state is one number: a call draws by stepping the state, so what  *)
(* a call returns depends on the state the previous call left behind.      *)
(***************************************************************************)
EXTENDS Integers, Sequences, FiniteSets, TLC

\* ---------------------------------------------------------------- bounds
MaxRows == 2
MaxCols == 2
MaxCells == 4
MaxFitCells == 1
MaxVal == 1
MaxSeed == 0
MaxEstimators == 1
MaxComponents == 2
RngModulus == 16

\* ------------------------------------------------------------------ state
VARIABLES
  np_random,      \* state of numpy's process-wide generator (random_state=None)
  empty_choice,   \* whether this numpy lets choice() take 0 values from an empty array
  self,           \* the RandomForest2Embedding instance
  trainings,      \* history: has BaseForest.fit ever completed on self
  repeated,       \* history: "same" or "differs" when the last call is a fit_transform
                  \* with the arguments of the successful fit_transform right
                  \* before it and returned the same or another embedding; else "no"
  args,           \* the arguments of the module-level call about to be made
  last            \* the last call: its arguments and what it returned or raised

vars == <<np_random, empty_choice, self, trainings, repeated, args, last>>

\* ------------------------------------------------------ program constants
\* default random_state of generate_discriminative_dataset
DefaultDatasetSeed == 1234
\* default random_state of the column samplers and generate_synthetic_features
DefaultColumnSeed == 12345
\* random_state of the manifold.TSNE projector in calcul_embedding
TsneSeed == 12345
\* default n_components of fit_transform and transform
DefaultComponents == 2

\* ----------------------------------------------------------------- arrays
Vals == 0..MaxVal

Matrix(n, f, rows) == [ndim |-> 2, shape |-> <<n, f>>, data |-> rows]

Vector(n, vals) == [ndim |-> 1, shape |-> <<n>>, data |-> vals]

Shapes == {s \in (0..MaxRows) \X (0..MaxCols) : s[1] * s[2] <= MaxCells}

Matrices ==
  UNION {{Matrix(s[1], s[2], d) : d \in [1..s[1] -> [1..s[2] -> Vals]]} : s \in Shapes}

Vectors == UNION {{Vector(n, d) : d \in [1..n -> Vals]} : n \in 0..MaxRows}

\* X[:, column]
ColumnOf(X, column) == [i \in 1..X.shape[1] |-> X.data[i][column]]

SeqMin(s) == CHOOSE v \in {s[i] : i \in 1..Len(s)} : \A i \in 1..Len(s) : v <= s[i]

SeqMax(s) == CHOOSE v \in {s[i] : i \in 1..Len(s)} : \A i \in 1..Len(s) : v >= s[i]

\* ------------------------------------------------------- random generator
\* The random_state argument of every function: None, an int seed, or a
\* RandomState instance (given by its current state).
RsNone == [kind |-> "none", v |-> 0]

RsInt(seed) == [kind |-> "int", v |-> seed]

RsInstance(state) == [kind |-> "instance", v |-> state]

\* RandomState(seed): the state a fresh generator starts in
SeedState(seed) == seed % RngModulus

\* one draw: the generator's state after it
Step(state) == (5 * state + 3) % RngModulus

\* the integer below k that a generator in `state` has just drawn
\* (the state scaled from 0..RngModulus-1 down to 0..k-1)
Below(state, k) == (state * k) \div RngModulus

RECURSIVE Advance(_, _)
Advance(state, k) == IF k = 0 THEN state ELSE Advance(Step(state), k - 1)

\* check_random_state(arg): the state of the generator the call will use.
\* None is the process-wide numpy generator, an int a fresh generator, an
\* instance is returned as it is.
check_random_state(arg) ==
  CASE arg.kind = "none" -> np_random
    [] arg.kind = "int" -> SeedState(arg.v)
    [] OTHER -> arg.v

\* The state of the caller's generator g after a callee that was handed
\* `arg` left its own generator in state `after`: only a shared instance
\* carries the callee's draws back.
CallerState(arg, g, after) == IF arg.kind = "instance" THEN after ELSE g

\* RandomState.choice(a, size, replace=True)
\* An empty `a` raises ValueError; newer numpy releases allow it when no value
\* is taken (size = 0).
choice(state, a, size) ==
  IF Len(a) = 0 /\ ~(empty_choice /\ size = 0)
  THEN [status |-> "ValueError", value |-> <<>>, after |-> state]
  ELSE [status |-> "ok",
        value |-> [i \in 1..size |-> a[1 + Below(Advance(state, i), Len(a))]],
        after |-> Advance(state, size)]

\* RandomState.uniform(low, high, size), stored into an array of X's dtype
uniform(state, low, high, size) ==
  [status |-> "ok",
   value |-> [i \in 1..size |->
                low + Below(Advance(state, i), high - low)],
   after |-> Advance(state, size)]

\* RandomState.permutation(np.arange(m)): a Fisher-Yates shuffle, one draw
\* for each position from the last down to the second.
Swap(p, i, j) == [p EXCEPT ![i] = p[j], ![j] = p[i]]

RECURSIVE Shuffle(_, _, _)
Shuffle(state, p, i) ==
  IF i < 2 THEN [value |-> p, after |-> state]
  ELSE LET s == Step(state)
       IN Shuffle(s, Swap(p, i, 1 + Below(s, i)), i - 1)

\* faulty variant: indices drawn one by one, with replacement
permutationSampled(state, m) ==
  [value |-> [i \in 1..m |-> 1 + Below(Advance(state, i), m)], after |-> Advance(state, m)]

permutation(state, m) == Shuffle(state, [i \in 1..m |-> i], m)

\* ------------------------------------------------------- column samplers
\* What a sampler hands back: the column (or the exception), and the states
\* of the generator it used before and after its draws.
Sampled(g, r) ==
  [status |-> r.status, value |-> r.value, before |-> g, after |-> r.after]

\* bootstrap_sample_column(X, n_samples=None, random_state)
bootstrap_sample_column(X, random_state) ==
  LET n_samples == Len(X)
      Draw(g) == Sampled(g, choice(g, X, n_samples))
  IN Draw(check_random_state(random_state))

\* uniform_sample_column(X, n_samples=None, random_state); np.min of an
\* empty column raises ValueError
uniform_sample_column(X, random_state) ==
  LET n_samples == Len(X)
      Draw(g) ==
        IF Len(X) = 0
        THEN [status |-> "ValueError", value |-> <<>>, before |-> g, after |-> g]
        ELSE Sampled(g, uniform(g, SeqMin(X), SeqMax(X), n_samples))
  IN Draw(check_random_state(random_state))

\* ------------------------------------------- generate_synthetic_features
NoArray == [ndim |-> 0, shape |-> <<>>, data |-> <<>>]

Methods == {"bootstrap", "uniform", "gaussian"}

\* faulty variant: every column sampled from the first column of X
SampleColumnFirst(X, column, method, g) ==
  CASE method = "bootstrap" -> bootstrap_sample_column(ColumnOf(X, 1), RsInstance(g))
    [] method = "uniform" -> uniform_sample_column(ColumnOf(X, 1), RsInstance(g))
    [] OTHER -> [status |-> "ValueError", value |-> <<>>, before |-> g, after |-> g]

\* faulty variant: random_state not handed down: each sampler seeds its own default
SampleColumnReseeded(X, column, method, g) ==
  CASE method = "bootstrap" ->
         bootstrap_sample_column(ColumnOf(X, column), RsInt(DefaultColumnSeed))
    [] method = "uniform" ->
         uniform_sample_column(ColumnOf(X, column), RsInt(DefaultColumnSeed))
    [] OTHER -> [status |-> "ValueError", value |-> <<>>, before |-> g, after |-> g]

\* The body of the column loop: one column sampled with the generator g of
\* generate_synthetic_features, handed down as an instance.
SampleColumn(X, column, method, g) ==
  CASE method = "bootstrap" -> bootstrap_sample_column(ColumnOf(X, column), RsInstance(g))
    [] method = "uniform" -> uniform_sample_column(ColumnOf(X, column), RsInstance(g))
    [] OTHER -> [status |-> "ValueError", value |-> <<>>, before |-> g, after |-> g]

\* for column in range(n_features): columns `column`..n_features, with the
\* columns sampled so far, the generator state and the log of sampling calls
RECURSIVE ColumnLoop(_, _, _, _, _, _)
ColumnLoop(X, method, column, cols, g, log) ==
  LET Assign(r) ==
        IF r.status # "ok"
        THEN [status |-> r.status, cols |-> <<>>, rng |-> g, log |-> log]
        ELSE ColumnLoop(X, method, column + 1, Append(cols, r.value), r.after,
                        Append(log, [who |-> "column", index |-> column,
                                     before |-> r.before, after |-> r.after]))
  IN IF column > X.shape[2]
     THEN [status |-> "ok", cols |-> cols, rng |-> g, log |-> log]
     ELSE Assign(SampleColumn(X, column, method, g))

generate_synthetic_features(X, method, random_state) ==
  LET Return(l) ==
        IF l.status # "ok"
        THEN [status |-> l.status, value |-> NoArray, rng |-> l.rng, log |-> l.log]
        ELSE [status |-> "ok",
              value |-> Matrix(X.shape[1], X.shape[2],
                               [i \in 1..X.shape[1] |->
                                  [j \in 1..X.shape[2] |-> l.cols[j][i]]]),
              rng |-> l.rng, log |-> l.log]
      Run(g) ==
        IF X.ndim < 2
        THEN [status |-> "IndexError", value |-> NoArray, rng |-> g, log |-> <<>>]
        ELSE Return(ColumnLoop(X, method, 1, <<>>, g, <<>>))
  IN Run(check_random_state(random_state))

\* --------------------------------------- generate_discriminative_dataset
NoDataset(status, g, log) ==
  [status |-> status, X_ |-> NoArray, y_ |-> <<>>, rng |-> g, log |-> log,
   synth_X |-> NoArray, permutation_indices |-> <<>>]

\* faulty variant: the labels left in stacking order
PermuteLabelsKept(y_, permutation_indices) == y_

\* y_[permutation_indices]
PermuteLabels(y_, permutation_indices) ==
  [p \in 1..Len(permutation_indices) |-> y_[permutation_indices[p]]]

\* X_[permutation_indices, :]
PermuteRows(rows, permutation_indices) ==
  [p \in 1..Len(permutation_indices) |-> rows[permutation_indices[p]]]

generate_discriminative_dataset(X, method, random_state) ==
  LET n_samples == X.shape[1]
      y_ == [i \in 1..(2 * n_samples) |-> IF i <= n_samples THEN 1 ELSE 0]
      Return(s, stacked, perm) ==
        [status |-> "ok",
         X_ |-> Matrix(Len(stacked), X.shape[2], PermuteRows(stacked, perm.value)),
         y_ |-> PermuteLabels(y_, perm.value),
         rng |-> perm.after,
         log |-> Append(s.log, [who |-> "permutation", index |-> 0,
                                before |-> s.rng, after |-> perm.after]),
         synth_X |-> s.value,
         permutation_indices |-> perm.value]
      Stack(s) ==
        IF s.status # "ok"
        THEN NoDataset(s.status, s.rng, s.log)
        ELSE Return(s, X.data \o s.value.data,
                    permutation(s.rng, 2 * X.shape[1]))
      Run(g) == Stack(generate_synthetic_features(X, method, RsInstance(g)))
  IN Run(check_random_state(random_state))

\* ------------------------------------------------------ calcul_embedding
Hamming(a, b) == Cardinality({k \in 1..Len(a) : a[k] # b[k]})

\* sum of the Hamming distances of row i to rows 1..k
RECURSIVE HammingSum(_, _, _)
HammingSum(nodes, i, k) ==
  IF k = 0 THEN 0 ELSE Hamming(nodes[i], nodes[k]) + HammingSum(nodes, i, k - 1)

\* manifold.TSNE(n_components, random_state=12345, metric='hamming')
\*   .fit_transform(nodes), as a capability: a deterministic function of the
\* whole node matrix and of the projector's own seeded generator, one row of
\* n_components coordinates for each row of nodes, in the same order.
calcul_embedding(nodes, n_components) ==
  LET Project(g) ==
        Matrix(Len(nodes), n_components,
               [i \in 1..Len(nodes) |->
                  [c \in 1..n_components |->
                     HammingSum(nodes, i, Len(nodes)) * c
                       + Advance(g, (i - 1) * n_components + c)]])
  IN Project(check_random_state(RsInt(TsneSeed)))

\* ------------------------------------------- the tree ensemble (BaseForest)
\* The external classifier, as a capability: train on (X_, y_) and give, for
\* any rows, the binary membership matrix over the nodes of all trees.  A
\* tree is a stump that its own generator picks from the training rows.
FitTree(X_, y_, seed) ==
  LET Stump(feature, row) ==
        [feature |-> feature, threshold |-> X_.data[row][feature],
         leaf |-> y_[row], n_features_ |-> X_.shape[2]]
      Grow(tg) == Stump(1 + Below(Advance(tg, 1), X_.shape[2]),
                        1 + Below(Advance(tg, 2), X_.shape[1]))
  IN Grow(SeedState(seed))

\* faulty variant: random_state not handed to BaseForest.__init__
ForestRandomStateDropped(s) == RsNone

\* random_state=random_state handed to BaseForest.__init__
ForestRandomState(s) == s.random_state

\* BaseForest.fit(X_, y_): without warm_start the old trees are dropped; each
\* missing tree takes its seed from the forest's generator, in order, after
\* one draw for each tree kept.
BaseForestFit(s, X_, y_) ==
  LET Grow(arg, g, kept, n_more) ==
        [estimators_ |->
           kept \o [t \in 1..n_more |->
                      FitTree(X_, y_, Advance(g, Len(kept) + t))],
         np_random |-> IF arg.kind # "none" THEN np_random
                       ELSE IF n_more > 0 THEN Advance(g, Len(kept) + n_more)
                       ELSE g]
      Keep(arg, kept) ==
        Grow(arg, check_random_state(arg), kept, s.n_estimators - Len(kept))
  IN Keep(ForestRandomState(s), IF s.warm_start THEN s.estimators_ ELSE <<>>)

TreePath(tree, x) ==
  <<1, IF x[tree.feature] <= tree.threshold THEN 1 ELSE 0,
       IF x[tree.feature] <= tree.threshold THEN 0 ELSE 1>>

RECURSIVE ForestPath(_, _)
ForestPath(estimators_, x) ==
  IF estimators_ = <<>> THEN <<>>
  ELSE TreePath(Head(estimators_), x) \o ForestPath(Tail(estimators_), x)

\* BaseForest.decision_path(X): NotFittedError without trees, ValueError
\* for rows the trees cannot take
decision_path(estimators_, X) ==
  IF Len(estimators_) = 0
  THEN [status |-> "NotFittedError", value |-> <<>>]
  ELSE IF X.ndim # 2 \/ X.shape[1] < 1
  THEN [status |-> "ValueError", value |-> <<>>]
  ELSE IF X.shape[2] # estimators_[1].n_features_
  THEN [status |-> "ValueError", value |-> <<>>]
  ELSE [status |-> "ok",
        value |-> [i \in 1..X.shape[1] |-> ForestPath(estimators_, X.data[i])]]

\* ------------------------------------------------ RandomForest2Embedding
\* check_array(X, accept_sparse=['csc'], ensure_2d=False): a 1-D array
\* passes; more than two dimensions, no row or no column is a ValueError
check_array(X) ==
  IF X.ndim > 2 \/ X.shape[1] < 1 \/ (X.ndim = 2 /\ X.shape[2] < 1)
  THEN "ValueError" ELSE "ok"

Raised(s, status, at) ==
  [status |-> status, at |-> at, value |-> NoArray, path_of |-> NoArray,
   trained_on |-> NoArray, self |-> s, np_random |-> np_random, trained |-> FALSE]

Embedded(s, X, embedding) ==
  [status |-> "ok", at |-> "", value |-> embedding, path_of |-> X,
   trained_on |-> NoArray, self |-> s, np_random |-> np_random, trained |-> FALSE]

\* faulty variant: an estimator without trees embeds an empty node matrix
transformUnfitted(s, X, n_components) ==
  LET Project(path) ==
        IF path.status = "ValueError"
        THEN Raised(s, path.status, "decision_path")
        ELSE Embedded(s, X, calcul_embedding(path.value, n_components))
  IN Project(decision_path(s.estimators_, X))

\* transform(self, X, n_components)
transform(s, X, n_components) ==
  LET Project(path) ==
        IF path.status # "ok"
        THEN Raised(s, path.status, "decision_path")
        ELSE Embedded(s, X, calcul_embedding(path.value, n_components))
  IN Project(decision_path(s.estimators_, X))

\* what fit_transform returns once the trees are fitted: the outcome t of
\* transform, with the estimator as BaseForest.fit left it
Trained(t, forest, d) ==
  [t EXCEPT !.np_random = forest.np_random, !.trained = TRUE, !.trained_on = d.X_]

\* faulty variant: the combined matrix X_ handed to transform
fit_transformStacked(s, X, n_components) ==
  LET Project(forest, d) ==
        Trained(transform([s EXCEPT !.estimators_ = forest.estimators_], d.X_,
                          n_components),
                forest, d)
      Train(d) ==
        IF d.status # "ok"
        THEN Raised(s, d.status, "generate_discriminative_dataset")
        ELSE Project(BaseForestFit(s, d.X_, d.y_), d)
  IN IF check_array(X) # "ok" THEN Raised(s, check_array(X), "check_array")
     ELSE Train(generate_discriminative_dataset(X, s.method, RsInt(DefaultDatasetSeed)))

\* faulty variant: the trees dropped on entry, before X is validated
fit_transformCleared(s, X, n_components) ==
  LET Project(forest, d) ==
        Trained(transform([s EXCEPT !.estimators_ = forest.estimators_], X,
                          n_components),
                forest, d)
      Train(d) ==
        IF d.status # "ok"
        THEN Raised([s EXCEPT !.estimators_ = <<>>], d.status,
                    "generate_discriminative_dataset")
        ELSE Project(BaseForestFit(s, d.X_, d.y_), d)
  IN IF check_array(X) # "ok"
     THEN Raised([s EXCEPT !.estimators_ = <<>>], check_array(X), "check_array")
     ELSE Train(generate_discriminative_dataset(X, s.method, RsInt(DefaultDatasetSeed)))

\* fit_transform(self, X, n_components)
fit_transform(s, X, n_components) ==
  LET Project(forest, d) ==
        Trained(transform([s EXCEPT !.estimators_ = forest.estimators_], X,
                          n_components),
                forest, d)
      Train(d) ==
        IF d.status # "ok"
        THEN Raised(s, d.status, "generate_discriminative_dataset")
        ELSE Project(BaseForestFit(s, d.X_, d.y_), d)
  IN IF check_array(X) # "ok" THEN Raised(s, check_array(X), "check_array")
     ELSE Train(generate_discriminative_dataset(X, s.method, RsInt(DefaultDatasetSeed)))

\* fit(self, X): fit_transform with its embedding dropped, self returned
fit(s, X) ==
  LET Drop(r) == [r EXCEPT !.value = NoArray]
  IN Drop(fit_transform(s, X, DefaultComponents))

\* ---------------------------------------------------------------- inputs
\* an array of three dimensions
Cube == [ndim |-> 3, shape |-> <<1, 1, 1>>, data |-> <<<<<<0>>>>>>]

Arrays == Matrices \cup Vectors

RandomStates ==
  {RsNone, RsInt(DefaultDatasetSeed), RsInt(DefaultColumnSeed)}
    \cup {RsInt(seed) : seed \in 0..MaxSeed}

ProcessSeeds == {SeedState(seed) : seed \in 0..MaxSeed}

NoArgs == [X |-> NoArray, method |-> "", random_state |-> RsNone, pending |-> FALSE]

NoCall == [op |-> "__init__", X |-> NoArray, n_components |-> 0, status |-> "ok",
           at |-> "", value |-> NoArray, path_of |-> NoArray, trained_on |-> NoArray]

\* RandomForest2Embedding(method, random_state, warm_start, n_estimators)
Construct(method, random_state, warm_start, n_estimators) ==
  [method |-> method, random_state |-> random_state, warm_start |-> warm_start,
   n_estimators |-> n_estimators, estimators_ |-> <<>>]

\* --------------------------------------- the module-level functions, called
InitFunctions ==
  /\ np_random \in ProcessSeeds
  /\ empty_choice \in BOOLEAN
  /\ self = Construct("bootstrap", RsNone, FALSE, 1)
  /\ trainings = FALSE
  /\ repeated = "no"
  /\ args \in [X : Arrays, method : Methods, random_state : RandomStates,
               pending : {TRUE}]
  /\ last = NoCall

GenerateSyntheticFeatures ==
  /\ args.pending
  /\ LET r == generate_synthetic_features(args.X, args.method, args.random_state)
     IN /\ last' = [op |-> "generate_synthetic_features", X |-> args.X,
                    method |-> args.method, random_state |-> args.random_state,
                    g0 |-> check_random_state(args.random_state), r |-> r]
        /\ np_random' = IF args.random_state.kind = "none" THEN r.rng ELSE np_random
  /\ args' = NoArgs
  /\ UNCHANGED <<empty_choice, self, trainings, repeated>>

GenerateDiscriminativeDataset ==
  /\ args.pending
  /\ LET r == generate_discriminative_dataset(args.X, args.method, args.random_state)
     IN /\ last' = [op |-> "generate_discriminative_dataset", X |-> args.X,
                    method |-> args.method, random_state |-> args.random_state,
                    g0 |-> check_random_state(args.random_state), r |-> r]
        /\ np_random' = IF args.random_state.kind = "none" THEN r.rng ELSE np_random
  /\ args' = NoArgs
  /\ UNCHANGED <<empty_choice, self, trainings, repeated>>

NextFunctions == GenerateSyntheticFeatures \/ GenerateDiscriminativeDataset

SpecFunctions == InitFunctions /\ [][NextFunctions]_vars

\* ------------------------------------------------- the estimator, called
Size(X) == IF X.ndim = 2 THEN X.shape[1] * X.shape[2] ELSE X.shape[1]

EstimatorInputs == {X \in Arrays : Size(X) <= MaxFitCells} \cup {Cube}

\* the configurations RandomForest2Embedding is constructed with
Estimators ==
  {Construct(method, random_state, warm_start, MaxEstimators) :
     method \in Methods,
     random_state \in {RsNone} \cup {RsInt(seed) : seed \in 0..MaxSeed},
     warm_start \in BOOLEAN}

\* (check_array lets no array without rows through to the samplers, so which
\* numpy it is makes no difference to the estimator)
Init ==
  /\ np_random \in ProcessSeeds
  /\ empty_choice = TRUE
  /\ self \in Estimators
  /\ trainings = FALSE
  /\ repeated = "no"
  /\ args = NoArgs
  /\ last = [op |-> "__init__", ndim |-> 0, shape |-> <<>>, status |-> "ok",
             at |-> "", returned |-> FALSE]

\* A call of a method has returned or raised.  Of the call the caller keeps
\* the method, the shape of X and how it ended; the estimator and numpy's
\* generator are left as the call left them.
Completed(op, X, r) ==
  /\ last' = [op |-> op, ndim |-> X.ndim, shape |-> X.shape, status |-> r.status,
              at |-> r.at, returned |-> (r.value # NoArray)]
  /\ self' = r.self
  /\ np_random' = r.np_random
  /\ trainings' = (trainings \/ r.trained)
  /\ UNCHANGED <<empty_choice, repeated, args>>

FitTransform ==
  \E X \in EstimatorInputs :
    \E r \in {fit_transform(self, X, DefaultComponents)} :
      Completed("fit_transform", X, r)

Fit ==
  \E X \in EstimatorInputs :
    \E r \in {fit(self, X)} : Completed("fit", X, r)

Transform ==
  \E X \in EstimatorInputs :
    \E r \in {transform(self, X, DefaultComponents)} :
      Completed("transform", X, r)

Next == FitTransform \/ Fit \/ Transform

Spec == Init /\ [][Next]_vars

\* ------------------------- the estimator, called again on the same array
InitSame ==
  /\ np_random \in ProcessSeeds
  /\ empty_choice = TRUE
  /\ self \in Estimators
  /\ trainings = FALSE
  /\ repeated = "no"
  /\ args \in [X : Arrays \cup {Cube}, n_components : 1..MaxComponents]
  /\ last = NoCall

\* A call on the array has returned or raised; the caller keeps the
\* arguments and the embedding too.
Returned(op, X, n_components, r) ==
  /\ last' = [op |-> op, X |-> X, n_components |-> n_components, status |-> r.status,
              at |-> r.at, value |-> r.value, path_of |-> r.path_of,
              trained_on |-> r.trained_on]
  /\ self' = r.self
  /\ np_random' = r.np_random
  /\ trainings' = (trainings \/ r.trained)
  /\ repeated' = IF /\ op = "fit_transform"
                    /\ last.op = "fit_transform" /\ last.status = "ok"
                    /\ last.X = X /\ last.n_components = n_components
                 THEN IF r.status = "ok" /\ r.value = last.value
                      THEN "same" ELSE "differs"
                 ELSE "no"
  /\ UNCHANGED <<empty_choice, args>>

FitTransformSame ==
  \E r \in {fit_transform(self, args.X, args.n_components)} :
    Returned("fit_transform", args.X, args.n_components, r)

FitSame ==
  \E r \in {fit(self, args.X)} : Returned("fit", args.X, DefaultComponents, r)

TransformSame ==
  \E r \in {transform(self, args.X, args.n_components)} :
    Returned("transform", args.X, args.n_components, r)

NextSame == FitTransformSame \/ FitSame \/ TransformSame

SpecSame == InitSame /\ [][NextSame]_vars

\* ================================================================ claims
CountOf(seq, v) == Cardinality({i \in 1..Len(seq) : seq[i] = v})

IsDataset == last.op = "generate_discriminative_dataset"

IsSynthetic == last.op = "generate_synthetic_features"

Supported == {"bootstrap", "uniform"}

\* C1: for a matrix X of n rows and f columns and a supported strategy,
\* generate_discriminative_dataset returns (it returns whenever X has a row),
\* and what it returns is a matrix of shape (2n, f) with a label vector of
\* length 2n holding exactly n ones and n zeros.
C1_ShapeAndBalance ==
  (IsDataset /\ last.X.ndim = 2 /\ last.method \in Supported) =>
    LET n == last.X.shape[1]
        f == last.X.shape[2]
        r == last.r
    IN /\ n >= 1 => r.status = "ok"
       /\ r.status = "ok" =>
            /\ r.X_.ndim = 2
            /\ r.X_.shape = <<2 * n, f>>
            /\ Len(r.X_.data) = 2 * n
            /\ \A p \in 1..(2 * n) : Len(r.X_.data[p]) = f
            /\ Len(r.y_) = 2 * n
            /\ CountOf(r.y_, 1) = n
            /\ CountOf(r.y_, 0) = n

C1_Witness ==
  /\ IsDataset /\ last.r.status = "ok"
  /\ last.X.shape = <<2, 2>>
  /\ last.r.y_ = <<0, 1, 0, 1>>

C3_BootstrapMembership ==
  (IsSynthetic /\ last.X.ndim = 2 /\ last.method = "bootstrap") =>
    LET n == last.X.shape[1]
        f == last.X.shape[2]
        r == last.r
    IN /\ n >= 1 => r.status = "ok"
       /\ r.status = "ok" =>
            /\ r.value.ndim = 2
            /\ r.value.shape = <<n, f>>
            /\ Len(r.value.data) = n
            /\ \A i \in 1..n :
                 /\ Len(r.value.data[i]) = f
                 /\ \A j \in 1..f :
                      \E k \in 1..n : r.value.data[i][j] = last.X.data[k][j]

C3_Witness ==
  /\ IsSynthetic /\ last.method = "bootstrap" /\ last.r.status = "ok"
  /\ last.X.shape = <<2, 2>>
  /\ last.r.value # last.X
  /\ \E j \in 1..2 : last.X.data[1][j] # last.X.data[2][j]

\* C4 (as claimed): for every matrix X, a strategy name other than
\* 'bootstrap' and 'uniform' makes generate_synthetic_features and
\* generate_discriminative_dataset raise ValueError before any value is
\* drawn from the generator, and no matrix is returned.
C4_UnknownStrategyRaises ==
  ((IsSynthetic \/ IsDataset) /\ last.X.ndim = 2 /\ last.method \notin Supported) =>
    /\ last.r.status = "ValueError"
    /\ last.r.log = <<>>
    /\ last.r.rng = last.g0
    /\ IF IsDataset THEN last.r.X_ = NoArray ELSE last.r.value = NoArray

\* C9: in one generate_discriminative_dataset call the sampling calls are
\* column 1, ..., column f in that order and then the permutation; the
\* first starts from the state of the call's generator, each later one from
\* the state the one before it left, each column takes n draws, and the
\* call's generator ends in the state the permutation left.
C9_OneGenerator ==
  (IsDataset /\ last.r.status = "ok") =>
    LET n == last.X.shape[1]
        f == last.X.shape[2]
        log == last.r.log
    IN /\ Len(log) = f + 1
       /\ \A j \in 1..f :
            /\ log[j].who = "column"
            /\ log[j].index = j
            /\ log[j].after = Advance(log[j].before, n)
       /\ log[f + 1].who = "permutation"
       /\ log[1].before = last.g0
       /\ \A j \in 1..f : log[j + 1].before = log[j].after
       /\ last.r.rng = log[f + 1].after

C9_Witness ==
  /\ IsDataset /\ last.r.status = "ok"
  /\ last.X.shape = <<2, 2>>
  /\ last.r.log[2].before # last.g0
  /\ last.r.log[3].before # last.r.log[2].before

\* C5: transform on an estimator on which BaseForest.fit never completed
\* raises NotFittedError and returns no embedding.
C5_TransformBeforeFit ==
  (last.op = "transform" /\ ~trainings) =>
    /\ last.status = "NotFittedError"
    /\ ~last.returned

C5_Witness ==
  /\ last.op = "transform" /\ ~trainings
  /\ last.ndim = 2 /\ last.shape[1] >= 1 /\ last.shape[2] >= 1

\* C6: a fit_transform(X, n_components) that returns has trained on the
\* permuted discriminative dataset of 2n rows and has taken the decision
\* paths of X itself: the embedding has n rows and n_components columns, and
\* it is the projection of the node matrix whose row i is the path of row i
\* of X through the trained trees.
C6_PathsOfOriginal ==
  (last.op = "fit_transform" /\ last.status = "ok") =>
    LET n == last.X.shape[1]
    IN /\ last.path_of = last.X
       /\ last.trained_on.shape = <<2 * n, last.X.shape[2]>>
       /\ last.value.shape = <<n, last.n_components>>
       /\ Len(last.value.data) = n
       /\ \A i \in 1..n : Len(last.value.data[i]) = last.n_components
       /\ last.value =
            calcul_embedding([i \in 1..n |-> ForestPath(self.estimators_, last.X.data[i])],
                             last.n_components)

C6_Witness ==
  /\ last.op = "fit_transform" /\ last.status = "ok"
  /\ last.X.shape = <<2, 2>>
  /\ last.trained_on.data[1] # last.X.data[1]
  /\ last.value.data[1] # last.value.data[2]

\* C7 (as claimed): a fit_transform that repeats the successful
\* fit_transform before it, on the same X with the same n_components, returns
\* the same embedding, whatever the configuration of the estimator.
C7_RepeatSameEmbedding == repeated # "differs"

\* C7 (amended): the same, for an estimator constructed with an integer
\* random_state.
C7_RepeatSameEmbeddingSeeded ==
  self.random_state.kind = "int" => repeated # "differs"

C7_Witness ==
  /\ self.random_state.kind = "int"
  /\ ~self.warm_start
  /\ repeated = "same"
  /\ last.X.shape = <<2, 2>>

\* C8 (as claimed): fit_transform on an array that is not 2-D raises
\* ValueError in check_array, before the dataset is built and before the
\* trees are trained.
C8_WrongRankRejectedByValidation ==
  (last.op = "fit_transform" /\ last.X.ndim # 2) =>
    /\ last.status = "ValueError"
    /\ last.at = "check_array"

\* C10: transform returns an embedding only if BaseForest.fit completed in
\* some earlier fit or fit_transform; and a fit or fit_transform that raises
\* in check_array or in generate_discriminative_dataset leaves the estimator,
\* its trees included, as it was.
FailedBeforeTraining ==
  /\ last'.op \in {"fit", "fit_transform"}
  /\ last'.status # "ok"
  /\ last'.at \in {"check_array", "generate_discriminative_dataset"}

C10_FailedFitKeepsClassifier ==
  /\ []((last.op = "transform" /\ last.status = "ok") => trainings)
  /\ [][FailedBeforeTraining => (self' = self /\ trainings' = trainings)]_vars

C10_Witness ==
  /\ trainings
  /\ self.estimators_ # <<>>
  /\ last.op = "fit_transform"
  /\ last.status = "ValueError"
  /\ last.at = "check_array"

====
